---- MODULE Spec2Model ----
(***************************************************************************)
(* A model of trainingdata-tool.cpp: main's loop over the input files and  *)
(* games, write_one_game_training_data's move loop with its lazily created *)
(* TrainingDataWriter, and get_v4_training_data.                           *)
(*                                                                         *)
(* Collaborators outside the file (the PGN reader, the polyglot legality   *)
(* oracle, lc0's move generator) are modelled by what they return: the     *)
(* tokens of a game, the kind of a move, the legal-move set and the nn     *)
(* index of the played move are drawn from small sets when they are read.  *)
(* options.verbose only prints; it is left out.                            *)
(*                                                                         *)
(* poly_move_to_lc0_move and resever_bits_in_bytes are pure functions of   *)
(* their arguments. In the run the translated move of a token is one of    *)
(* the drawn inputs; the two functions are also called on their own, on    *)
(* every move of the board and on 64-bit values, in SpecMove and SpecBits. *)
(***************************************************************************)
EXTENDS Integers, Sequences, FiniteSets, TLC

\* ------------------------------------------------------------------ bounds
MaxFiles    == 2   \* argv entries after the program name
MaxGames    == 3   \* games read over the whole run
MaxMoves    == 3   \* move tokens of one game
MaxCapacity == 2   \* largest -games-per-dir value
MaxConvert  == 3   \* largest -max-games-to-convert value
NNSize      == 3   \* size of the nn move index space (1858 in lc0)
MaxBits     == 2   \* set bits of a value handed to resever_bits_in_bytes

\* ------------------------------------------------------- program constants
nullptr == 0

\* The first characters a numeric annotation glyph can have, as the
\* character sequences pgn->last_read_nag holds ("" is <<>>).
Nags == {<<>>, <<"1">>, <<"2">>, <<"4">>, <<"5">>, <<"6">>}

\* pgn->last_read_comment: no comment, a decimal score, a mate distance,
\* free text.
Comments == {"", "{0.35/12 0.5s}", "{#-3/10 0.1s}", "{book}"}

\* What move_from_san and move_is_legal and move_is_mate say of a token.
MoveKinds == {"none", "illegal", "legal", "mate"}

Results == {"1-0", "0-1", "1/2-1/2", "*"}

\* ------------------------------------------------------------------ floats
\* A float is kept as its four bytes (little endian), so that a byte fill
\* and a float store can be told apart.
F_zero     == <<0, 0, 0, 0>>
F_one      == <<0, 0, 128, 63>>
F_minusone == <<0, 0, 128, 191>>

\* (int) of the float literals used as memset arguments: truncation.
FloatToInt(f) == IF f = F_one THEN 1 ELSE IF f = F_minusone THEN 0 - 1 ELSE 0

\* std::memset(dst, c, n): c is converted to int and then to unsigned char,
\* and every byte of the array gets it.
memset(c) == [i \in 0..(NNSize - 1) |-> [b \in 1..4 |-> FloatToInt(c) % 256]]

\* ------------------------------------------------------------ pure helpers
\* A uint64_t is kept as the set of the positions of its set bits, bit 0
\* the least significant one.
Bits == 0..63

\* v >> k and v << k on 64 bits: the bits shifted out are lost.
Shr(v, k) == {i - k : i \in {j \in v : j >= k}}
Shl(v, k) == {i + k : i \in {j \in v : j + k <= 63}}

\* 0x5555555555555555, 0x3333333333333333 and 0x0F0F0F0F0F0F0F0F
Mask55 == {i \in Bits : i % 2 = 0}
Mask33 == {i \in Bits : i % 4 < 2}
Mask0F == {i \in Bits : i % 8 < 4}

\* (a reversal that leaves the two halves of each byte where they are)
resever_bits_in_bytes_without_nibbles(v) ==
  LET v1 == (Shr(v, 1) \cap Mask55) \cup Shl(v \cap Mask55, 1)
      v2 == (Shr(v1, 2) \cap Mask33) \cup Shl(v1 \cap Mask33, 2)
  IN  v2

\* resever_bits_in_bytes: neighbouring bits are swapped, then neighbouring
\* pairs, then the two halves of each byte.
resever_bits_in_bytes(v) ==
  LET v1 == (Shr(v, 1) \cap Mask55) \cup Shl(v \cap Mask55, 1)
      v2 == (Shr(v1, 2) \cap Mask33) \cup Shl(v1 \cap Mask33, 2)
      v3 == (Shr(v2, 4) \cap Mask0F) \cup Shl(v2 \cap Mask0F, 4)
  IN  v3

\* extract_fishtest_comment_score on the comments of the model. The score is
\* in hundredths. rgx wants '{', an optional '-', digits '.' digits, '/';
\* rgx2 wants "{#", an optional '-', digits, '/'.
extract_fishtest_comment_score(comment) ==
  CASE comment = "{0.35/12 0.5s}" -> [success |-> TRUE, score |-> <<35>>]
    [] comment = "{#-3/10 0.1s}"  -> [success |-> TRUE, score |-> <<0 - 12800>>]
    [] OTHER                      -> [success |-> FALSE, score |-> <<>>]

\* convert_sf_score_to_win_probability, in thousandths, on the scores of the
\* model: 2/(1+exp(-0.4*0.35))-1 = 0.0699, and +-128 saturates to +-1.
convert_sf_score_to_win_probability(score) ==
  CASE score = 35        -> 70
    [] score = 0 - 35    -> 0 - 70
    [] score >= 12800    -> 1000
    [] score <= 0 - 12800 -> 0 - 1000
    [] OTHER             -> 0

\* lczero::BoardSquare(row, col)
BoardSquare(row, col) == [row |-> row, col |-> col]

\* A polyglot move: its two squares, as square_rank and square_file give
\* them, and move >> 12, which is 0 when move_is_promote(move) is false.
PolyMove(from, to, promote) == [from |-> from, to |-> to, promote |-> promote]

\* What poly_move_to_lc0_move reads of the board: board->turn, and what
\* move_is_castle(move, board) says.
PolyBoard(black, castle) == [black |-> black, castle |-> castle]

\* move_is_promote(move)
move_is_promote(move) == move.promote # 0

\* lookup[move >> 12]
PromotionLookup(code) ==
  CASE code = 0 -> "None"
    [] code = 1 -> "Knight"
    [] code = 2 -> "Bishop"
    [] code = 3 -> "Rook"
    [] code = 4 -> "Queen"

\* (the two castling files swapped)
CastleFileTo_swapped(is_short_castle) == IF is_short_castle THEN 2 ELSE 6

\* int file_to = is_short_castle ? 6 : 2;
CastleFileTo(is_short_castle) == IF is_short_castle THEN 6 ELSE 2

\* lczero::Move::Mirror(): both squares are flipped top to bottom.
Mirror(m) ==
  [m EXCEPT !.from = BoardSquare(7 - m.from.row, m.from.col),
            !.to = BoardSquare(7 - m.to.row, m.to.col)]

\* poly_move_to_lc0_move
poly_move_to_lc0_move(move, b) ==
  LET m  == [from |-> BoardSquare(move.from.row, move.from.col),
             to |-> BoardSquare(move.to.row, move.to.col),
             promotion |-> "None", castling |-> FALSE]
      is_short_castle == move.from.col < move.to.col
      m1 == IF move_is_promote(move)
              THEN [m EXCEPT !.promotion = PromotionLookup(move.promote)]
            ELSE IF b.castle
              THEN [m EXCEPT !.to = BoardSquare(move.to.row, CastleFileTo(is_short_castle)),
                             !.castling = TRUE]
            ELSE m
  IN  IF b.black THEN Mirror(m1) ELSE m1

\* ------------------------------------------------------------------- state
VARIABLES
  options,                  \* [fishtest_mode]
  max_games_per_directory,
  max_games_to_convert,
  idx,                      \* main's file index, 1..MaxFiles+1
  game_id,                  \* main's game counter
  pc,
  pgn,                      \* the reader: open file, current game, last token
  games_read,               \* games the reader has handed out so far
  arg_game_id,              \* write_one_game_training_data's by-value game_id
  board,                    \* polyglot board
  position_history,         \* lc0 position history
  game_result,
  writer,                   \* nullptr or the index of a writer in writers
  writers,                  \* every TrainingDataWriter constructed so far
  bad_move, fishtest_score, Q, lc0_move, legal_moves, found, chunk,
  outcome,                  \* the path the last move-loop iteration took
  ub,                       \* a null writer has been dereferenced
  call                      \* a call of one of the two pure functions on its
                            \* own: the arguments and what it returned

locals == <<bad_move, fishtest_score, Q, lc0_move, legal_moves, found, chunk>>
config == <<options, max_games_per_directory, max_games_to_convert>>
game_vars == <<arg_game_id, board, position_history, game_result, writer,
               writers, locals, outcome, ub>>
vars == <<config, idx, game_id, pc, pgn, games_read, game_vars, call>>

\* ------------------------------------------------- decisions of the code
\* (a filter that forgets '6')
is_bad_move_without_6(nag) ==
  /\ nag # <<>>
  /\ nag[1] \in {"2", "4", "5"}

\* bad_move: the first character of the glyph is '2', '4', '5' or '6'.
is_bad_move(nag) ==
  /\ nag # <<>>
  /\ nag[1] \in {"2", "4", "5", "6"}

\* game_result from pgn->result.
GameResultOf(result) ==
  IF result = "1-0" THEN "WHITE_WON"
  ELSE IF result = "0-1" THEN "BLACK_WON"
  ELSE "DRAW"

\* The evaluation of a mating move: position_history.Last() is the position
\* the move is played in.
mate_score(black_to_move) == IF black_to_move THEN 0 - 12800 ELSE 12800

\* The directory a new writer goes to.
DirectoryIndex(id, capacity) == id \div capacity

\* (a ceiling that lets one game more through)
BelowCeiling_inclusive(id, ceiling) == id <= ceiling

\* game_id < max_games_to_convert
BelowCeiling(id, ceiling) == id < ceiling

\* (a main that counts every game it has converted, written or not)
game_written_always(w) == TRUE

\* What write_one_game_training_data returns: the writer pointer as a bool.
game_written(w) == w # nullptr

\* (a game_id handed over by reference: main sees the callee's increment)
CounterAfterCall_by_reference(id, arg, w) == IF game_written(w) THEN arg + 1 ELSE arg

\* main's game_id after the call: id is main's counter, arg the callee's
\* copy of it, which is gone with the call, w the writer pointer returned
\* as a bool.
CounterAfterCall(id, arg, w) == IF game_written(w) THEN id + 1 ELSE id

\* (a label that is not turned to the side to move)
ResultLabel_unmirrored(gr, black_to_move) ==
  IF gr = "WHITE_WON" THEN 1
  ELSE IF gr = "BLACK_WON" THEN 0 - 1
  ELSE 0

\* result.result of a record.
ResultLabel(gr, black_to_move) ==
  IF gr = "WHITE_WON" THEN (IF black_to_move THEN 0 - 1 ELSE 1)
  ELSE IF gr = "BLACK_WON" THEN (IF black_to_move THEN 1 ELSE 0 - 1)
  ELSE 0

\* result.root_d and result.best_d of a record, in tenths.
DrawConfidence(gr) ==
  IF gr = "WHITE_WON" THEN 0
  ELSE IF gr = "BLACK_WON" THEN 0
  ELSE 10

\* A lczero::Move: its squares and promotion are stood for by the nn index
\* they give, next to the castling flag.
Move(nn, castling) == [nn |-> nn, castling |-> castling]

\* move.as_nn_index()
as_nn_index(move) == move.nn

\* (a match on the squares alone)
MatchesLegal_squares_only(legal, m) == legal.nn = m.nn

\* legal == lc0_move && legal.castling() == lc0_move.castling()
MatchesLegal(legal, m) == legal.nn = m.nn /\ legal.castling = m.castling

\* The loop over legal_moves that sets found.
FoundIn(legal, m) == \E l \in legal : MatchesLegal(l, m)

\* result.probabilities: the byte fill, then 0 for every legal move, then 1
\* for the played move.
Probabilities(played_move, legal) ==
  LET filled == memset(F_minusone)
      zeroed == [i \in 0..(NNSize - 1) |->
                   IF i \in {as_nn_index(l) : l \in legal} THEN F_zero ELSE filled[i]]
  IN  [zeroed EXCEPT ![as_nn_index(played_move)] = F_one]

\* (an encoder that is handed the position after the played move)
EncodePositionForNN_after(position) == {position.n + 1}

\* EncodePositionForNN(history, 8, FEN_ONLY): the planes of a position are
\* stood for by one mask, which has the bit set whose number is the number
\* of moves applied to the starting position.
EncodePositionForNN(position) == {position.n}

\* get_v4_training_data. The castling rights and rule50_count are read off
\* the same position as side_to_move and are left out.
get_v4_training_data(gr, position, played_move, legal, q) ==
  [version       |-> 4,
   probabilities |-> Probabilities(played_move, legal),
   planes        |-> resever_bits_in_bytes(EncodePositionForNN(position)),
   side_to_move  |-> IF position.black THEN 1 ELSE 0,
   result        |-> ResultLabel(gr, position.black),
   root_d        |-> DrawConfidence(gr),
   best_d        |-> DrawConfidence(gr),
   root_q        |-> IF position.black THEN 0 - q ELSE q,
   best_q        |-> IF position.black THEN 0 - q ELSE q]

\* ------------------------------------------------------ inputs of a run
Token(s, c, n, m) == [str |-> s, comment |-> c, nag |-> n, m |-> m]

\* The legal-move set of a position without castling: every nn index but the
\* last.
PlainLegal == {Move(i, FALSE) : i \in 0..(NNSize - 2)}

\* The legal-move set of a position in which the last legal move castles.
CastlingLegal == {Move(i, i = NNSize - 2) : i \in 0..(NNSize - 2)}

\* The translated moves a token can have: one that is in the legal-move set,
\* one whose squares no legal move has, the castling move, and one with the
\* squares of the castling move but no castling flag.
TokenMoves ==
  {Move(0, FALSE), Move(NNSize - 1, FALSE), Move(NNSize - 2, TRUE), Move(NNSize - 2, FALSE)}

\* Every token: kind of move, comment, glyph, and translated move.
AllTokens ==
  {Token(s, c, n, m) : s \in MoveKinds, c \in Comments, n \in Nags, m \in TokenMoves}

\* The tokens a whole run is checked with: one for each way an iteration of
\* the move loop can go.
RunTokens ==
  {Token("legal", "{0.35/12 0.5s}", <<>>, Move(0, FALSE)),
   Token("legal", "{0.35/12 0.5s}", <<"2">>, Move(0, FALSE)),
   Token("legal", "", <<>>, Move(0, FALSE)),
   Token("legal", "{book}", <<>>, Move(0, FALSE)),
   Token("illegal", "", <<>>, Move(0, FALSE))}

\* The tokens records are checked with: commented moves of every nn index.
RecordTokens ==
  {Token(s, "{0.35/12 0.5s}", <<>>, Move(i, FALSE)) : s \in {"legal", "mate"}, i \in 0..(NNSize - 1)}
    \cup {Token("legal", "", <<"4">>, Move(0, FALSE)), Token("legal", "", <<>>, Move(0, FALSE)),
          Token("legal", "{book}", <<>>, Move(0, FALSE)), Token("none", "", <<>>, Move(0, FALSE))}

\* A run over several files and games.
RunInputs ==
  [tokens |-> RunTokens, results |-> {"1-0"}, fens |-> {FALSE},
   legal |-> {PlainLegal}, files |-> MaxFiles, games |-> MaxGames,
   capacities |-> 1..MaxCapacity, ceilings |-> 0..MaxConvert]

\* One game, every token.
GameInputs ==
  [tokens |-> AllTokens, results |-> {"1-0"}, fens |-> BOOLEAN,
   legal |-> {CastlingLegal}, files |-> 1, games |-> 1,
   capacities |-> {1}, ceilings |-> {0, 1}]

\* One game, every result and every legal-move set.
RecordInputs ==
  [tokens |-> RecordTokens, results |-> Results, fens |-> BOOLEAN,
   legal |-> (SUBSET {Move(i, FALSE) : i \in 0..(NNSize - 1)}) \ {{}}, files |-> 1, games |-> 1,
   capacities |-> {1}, ceilings |-> {0, 1}]

\* ---------------------------------------------------------------- initial
ClosedPgn ==
  [open |-> FALSE, remaining |-> 0, result |-> "*", fen_black |-> FALSE, str |-> "none",
   last_read_comment |-> "", last_read_nag |-> <<>>, move_no |-> 0]

StartPosition(black) == [n |-> 0, black |-> black]

\* The locals of write_one_game_training_data before its move loop; also
\* what is left of them once the function has returned.
NoGame ==
  /\ arg_game_id = 0
  /\ board = [n |-> 0, black |-> FALSE, mated |-> FALSE]
  /\ position_history = StartPosition(FALSE)
  /\ game_result = "DRAW"
  /\ writer = nullptr
  /\ bad_move = FALSE
  /\ fishtest_score = <<>>
  /\ Q = 0
  /\ lc0_move = <<>>
  /\ legal_moves = {}
  /\ found = FALSE
  /\ chunk = <<>>
  /\ outcome = "none"

InitOf(P) ==
  /\ options \in [fishtest_mode : BOOLEAN]
  /\ max_games_per_directory \in P.capacities
  /\ max_games_to_convert \in P.ceilings
  /\ idx = 1
  /\ game_id = 0
  /\ pc = "main_for"
  /\ pgn = ClosedPgn
  /\ games_read = 0
  /\ writers = <<>>
  /\ ub = FALSE
  /\ call = <<>>
  /\ NoGame

\* ------------------------------------------------------------------- main
\* for (idx...) if (!file_exists(argv[idx])) continue;
SkipMissingFile(P) ==
  /\ pc = "main_for"
  /\ idx <= P.files
  /\ idx' = idx + 1
  /\ UNCHANGED <<call, config, game_id, pc, pgn, games_read, game_vars>>

\* pgn_open(pgn, argv[idx]);
OpenFile(P) ==
  /\ pc = "main_for"
  /\ idx <= P.files
  /\ pgn' = [ClosedPgn EXCEPT !.open = TRUE]
  /\ pc' = "main_while"
  /\ UNCHANGED <<call, config, idx, game_id, games_read, game_vars>>

\* The for loop has run out of arguments: main returns.
MainReturn(P) ==
  /\ pc = "main_for"
  /\ idx > P.files
  /\ pc' = "done"
  /\ UNCHANGED <<call, config, idx, game_id, pgn, games_read, game_vars>>

\* pgn_next_game(pgn) is false: pgn_close(pgn), next file.
FileExhausted ==
  /\ pc = "main_while"
  /\ pgn' = ClosedPgn
  /\ idx' = idx + 1
  /\ pc' = "main_for"
  /\ UNCHANGED <<call, config, game_id, games_read, game_vars>>

\* pgn_next_game(pgn) is true (the reader is on the next game) but
\* game_id < max_games_to_convert is false: pgn_close(pgn), next file.
CeilingReached(P) ==
  /\ pc = "main_while"
  /\ games_read < P.games
  /\ ~BelowCeiling(game_id, max_games_to_convert)
  /\ games_read' = games_read + 1
  /\ pgn' = ClosedPgn
  /\ idx' = idx + 1
  /\ pc' = "main_for"
  /\ UNCHANGED <<call, config, game_id, game_vars>>

\* pgn_next_game(pgn) && game_id < max_games_to_convert: the call of
\* write_one_game_training_data(pgn, game_id, options) up to its move loop.
StartGame(P) ==
  /\ pc = "main_while"
  /\ games_read < P.games
  /\ BelowCeiling(game_id, max_games_to_convert)
  /\ games_read' = games_read + 1
  /\ \E result \in P.results, fen_black \in P.fens, n \in 0..MaxMoves :
       /\ pgn' = [ClosedPgn EXCEPT !.open = TRUE, !.remaining = n, !.result = result,
                                   !.fen_black = fen_black]
       /\ board' = [n |-> 0, black |-> fen_black, mated |-> FALSE]
       /\ position_history' = StartPosition(fen_black)
       /\ game_result' = GameResultOf(result)
  /\ arg_game_id' = game_id
  /\ writer' = nullptr
  /\ bad_move' = FALSE
  /\ fishtest_score' = <<>>
  /\ Q' = 0
  /\ lc0_move' = <<>>
  /\ legal_moves' = {}
  /\ found' = FALSE
  /\ chunk' = <<>>
  /\ outcome' = "none"
  /\ pc' = "loop"
  /\ UNCHANGED <<call, config, idx, game_id, writers, ub>>

\* ------------------------------------------ write_one_game_training_data
\* pgn_next_move hands the next token of the game to the move loop; move_no
\* counts the tokens the move loop has got.
ReadToken(t) ==
  pgn' = [pgn EXCEPT !.remaining = @ - 1, !.str = t.str,
                     !.last_read_comment = t.comment,
                     !.last_read_nag = t.nag, !.move_no = @ + 1]

\* A mated side has no legal move left.
Playable(t) == board.mated => t.str \in {"none", "illegal"}

\* move == MoveNone || !move_is_legal(move, board)
IsIllegal(t) == t.str \in {"none", "illegal"}

\* move_is_mate(move, board)
move_is_mate(t) == t.str = "mate"

\* (an evaluation that always comes from the comment)
ScoreOf_no_bypass(t) == extract_fishtest_comment_score(t.comment)

\* The evaluation of a commented move: a mating move gets the saturated
\* score, any other move the score of its comment.
ScoreOf(t) ==
  IF move_is_mate(t)
    THEN [success |-> TRUE, score |-> <<mate_score(position_history.black)>>]
    ELSE extract_fishtest_comment_score(t.comment)

\* The locals of an iteration that breaks at the comment.
BreakLocals(t) ==
  /\ bad_move' = is_bad_move(t.nag)
  /\ fishtest_score' = <<>>
  /\ Q' = 0
  /\ lc0_move' = <<>>
  /\ legal_moves' = {}
  /\ found' = FALSE
  /\ chunk' = <<>>

\* (a break that returns at once)
AfterLoop_return == "ret"

\* (a move loop with no fast-forward loop behind it)
AfterLoop_no_fast_forward == "fin"

\* Where the move loop is left to, by its condition or by a break: the
\* fast-forward loop.
AfterLoop == "ff"

\* (a strict mode that never abandons)
AbandonsUncommented_never(t) == FALSE

\* else if (options.fishtest_mode) break;
AbandonsUncommented(t) == t.comment = "" /\ options.fishtest_mode

\* while (pgn_next_move(pgn, str, 256)) is false: the game has no token left.
MovesExhausted ==
  /\ pc = "loop"
  /\ pgn.remaining = 0
  /\ outcome' = "end"
  /\ pc' = AfterLoop
  /\ UNCHANGED <<call, config, idx, game_id, pgn, games_read, arg_game_id, board,
                 position_history, game_result, writer, writers, locals, ub>>

\* if (move == MoveNone || !move_is_legal(move, board)) break;
IllegalMove(P) ==
  /\ pc = "loop"
  /\ pgn.remaining > 0
  /\ \E t \in P.tokens :
       /\ Playable(t)
       /\ IsIllegal(t)
       /\ ReadToken(t)
  /\ outcome' = "illegal"
  /\ pc' = AfterLoop
  /\ UNCHANGED <<call, config, idx, game_id, games_read, arg_game_id, board,
                 position_history, game_result, writer, writers, locals, ub>>

\* The comment is there, the move is no mate and no score is found: break.
UnparseableComment(P) ==
  /\ pc = "loop"
  /\ pgn.remaining > 0
  /\ \E t \in P.tokens :
       /\ Playable(t)
       /\ ~IsIllegal(t)
       /\ t.comment # ""
       /\ ~ScoreOf(t).success
       /\ ReadToken(t)
       /\ BreakLocals(t)
  /\ outcome' = "unparseable"
  /\ pc' = AfterLoop
  /\ UNCHANGED <<call, config, idx, game_id, games_read, arg_game_id, board,
                 position_history, game_result, writer, writers, ub>>

\* No comment and options.fishtest_mode: break.
StrictNoComment(P) ==
  /\ pc = "loop"
  /\ pgn.remaining > 0
  /\ \E t \in P.tokens :
       /\ Playable(t)
       /\ ~IsIllegal(t)
       /\ AbandonsUncommented(t)
       /\ ReadToken(t)
       /\ BreakLocals(t)
  /\ outcome' = "strict"
  /\ pc' = AfterLoop
  /\ UNCHANGED <<call, config, idx, game_id, games_read, arg_game_id, board,
                 position_history, game_result, writer, writers, ub>>

\* new lczero::TrainingDataWriter(game_id, "supervised-" + ...)
NewWriter ==
  [id |-> arg_game_id,
   dir |-> DirectoryIndex(arg_game_id, max_games_per_directory),
   nchunks |-> 0, finalized |-> 0, released |-> FALSE, game |-> games_read]

\* Does this iteration make the writer: a commented move does when there is
\* none yet.
MakesWriter(t) == t.comment # "" /\ writer = nullptr

\* The writer, the writers and the by-value game_id after the comment branch.
WriterAfterComment(t) ==
  IF MakesWriter(t)
    THEN [w |-> Len(writers) + 1, ws |-> Append(writers, NewWriter), id |-> arg_game_id + 1]
    ELSE [w |-> writer, ws |-> writers, id |-> arg_game_id]

\* (a move that is appended to the history and not done on the board)
ExecuteMove_history_only(t) ==
  /\ position_history' = [n |-> position_history.n + 1, black |-> ~position_history.black]
  /\ board' = board

\* position_history.Append(lc0_move); move_do(board, move);
ExecuteMove(t) ==
  /\ position_history' = [n |-> position_history.n + 1, black |-> ~position_history.black]
  /\ board' = [n |-> board.n + 1, black |-> ~board.black, mated |-> move_is_mate(t)]

\* An iteration that gets past the comment branch. wr is what happens at
\* writer->WriteChunk(chunk): "skip" (bad_move, not reached), "write", or
\* one of the two outcomes of calling through a null writer, "crash" (the
\* process dies) and "lost" (the call has no effect and the loop goes on).
Iterate(t, L, wr) ==
  LET sc == IF t.comment # "" THEN ScoreOf(t) ELSE [success |-> FALSE, score |-> <<>>]
      q  == IF t.comment # "" THEN convert_sf_score_to_win_probability(sc.score[1]) ELSE 0
      wa == WriterAfterComment(t)
      ch == get_v4_training_data(game_result, position_history, t.m, L, q)
  IN  /\ Playable(t)
      /\ ~IsIllegal(t)
      /\ t.comment # "" => sc.success
      /\ ~AbandonsUncommented(t)
      /\ ReadToken(t)
      /\ bad_move' = is_bad_move(t.nag)
      /\ fishtest_score' = sc.score
      /\ Q' = q
      /\ arg_game_id' = wa.id
      /\ writer' = wa.w
      /\ lc0_move' = <<t.m>>
      /\ legal_moves' = L
      /\ found' = FoundIn(L, t.m)
      /\ CASE wr = "skip" ->
                /\ is_bad_move(t.nag)
                /\ chunk' = <<>>
                /\ writers' = wa.ws
                /\ ub' = ub
                /\ outcome' = "skipped"
                /\ ExecuteMove(t)
                /\ pc' = "loop"
           [] wr = "write" ->
                /\ ~is_bad_move(t.nag)
                /\ wa.w # nullptr
                /\ chunk' = <<ch>>
                /\ writers' = [wa.ws EXCEPT ![wa.w].nchunks = @ + 1]
                /\ ub' = ub
                /\ outcome' = "recorded"
                /\ ExecuteMove(t)
                /\ pc' = "loop"
           [] wr = "crash" ->
                /\ ~is_bad_move(t.nag)
                /\ wa.w = nullptr
                /\ chunk' = <<ch>>
                /\ writers' = wa.ws
                /\ ub' = TRUE
                /\ outcome' = "null_writer"
                /\ UNCHANGED <<board, position_history>>
                /\ pc' = "crashed"
           [] wr = "lost" ->
                /\ ~is_bad_move(t.nag)
                /\ wa.w = nullptr
                /\ chunk' = <<ch>>
                /\ writers' = wa.ws
                /\ ub' = TRUE
                /\ outcome' = "null_writer"
                /\ ExecuteMove(t)
                /\ pc' = "loop"
      /\ UNCHANGED <<call, config, idx, game_id, games_read, game_result>>

\* A move with a filtering glyph: no record, the move is executed.
SkipBadMove(P) ==
  /\ pc = "loop"
  /\ pgn.remaining > 0
  /\ \E t \in P.tokens, L \in P.legal : Iterate(t, L, "skip")

\* writer->WriteChunk(chunk) on a writer, then the move is executed.
RecordMove(P) ==
  /\ pc = "loop"
  /\ pgn.remaining > 0
  /\ \E t \in P.tokens, L \in P.legal : Iterate(t, L, "write")

\* writer->WriteChunk(chunk) through the null pointer: undefined behaviour.
\* The process dies there, or the call is lost and the loop goes on.
NullWriterCrash(P) ==
  /\ pc = "loop"
  /\ pgn.remaining > 0
  /\ \E t \in P.tokens, L \in P.legal : Iterate(t, L, "crash")

NullWriterLost(P) ==
  /\ pc = "loop"
  /\ pgn.remaining > 0
  /\ \E t \in P.tokens, L \in P.legal : Iterate(t, L, "lost")

\* while (pgn_next_move(pgn, str, 256)) ; one token of the fast-forward.
\* Nothing reads the token, so str and last_read_* stay those of the token
\* the move loop saw last.
FastForward ==
  /\ pc = "ff"
  /\ pgn.remaining > 0
  /\ pgn' = [pgn EXCEPT !.remaining = @ - 1]
  /\ UNCHANGED <<call, config, idx, game_id, pc, games_read, game_vars>>

\* The fast-forward loop ends.
FastForwardDone ==
  /\ pc = "ff"
  /\ pgn.remaining = 0
  /\ pc' = "fin"
  /\ UNCHANGED <<call, config, idx, game_id, pgn, games_read, game_vars>>

\* if (writer) { writer->Finalize(); delete writer; }
FinalizeWriter ==
  /\ pc = "fin"
  /\ writer # nullptr
  /\ writers' = [writers EXCEPT ![writer].finalized = @ + 1, ![writer].released = TRUE]
  /\ pc' = "ret"
  /\ UNCHANGED <<call, config, idx, game_id, pgn, games_read, arg_game_id, board,
                 position_history, game_result, writer, locals, outcome, ub>>

NoWriterToFinalize ==
  /\ pc = "fin"
  /\ writer = nullptr
  /\ pc' = "ret"
  /\ UNCHANGED <<call, config, idx, game_id, pgn, games_read, game_vars>>

\* return writer; and, in main, if (game_written) game_id++; The locals of
\* the call are gone.
ReturnToMain ==
  /\ pc = "ret"
  /\ game_id' = CounterAfterCall(game_id, arg_game_id, writer)
  /\ arg_game_id' = 0
  /\ board' = [n |-> 0, black |-> FALSE, mated |-> FALSE]
  /\ position_history' = StartPosition(FALSE)
  /\ game_result' = "DRAW"
  /\ writer' = nullptr
  /\ bad_move' = FALSE
  /\ fishtest_score' = <<>>
  /\ Q' = 0
  /\ lc0_move' = <<>>
  /\ legal_moves' = {}
  /\ found' = FALSE
  /\ chunk' = <<>>
  /\ outcome' = "none"
  /\ pc' = "main_while"
  /\ UNCHANGED <<call, config, idx, pgn, games_read, writers, ub>>

NextOf(P) ==
  \/ SkipMissingFile(P)
  \/ OpenFile(P)
  \/ MainReturn(P)
  \/ FileExhausted
  \/ CeilingReached(P)
  \/ StartGame(P)
  \/ MovesExhausted
  \/ IllegalMove(P)
  \/ UnparseableComment(P)
  \/ StrictNoComment(P)
  \/ SkipBadMove(P)
  \/ RecordMove(P)
  \/ NullWriterCrash(P)
  \/ NullWriterLost(P)
  \/ FastForward
  \/ FastForwardDone
  \/ FinalizeWriter
  \/ NoWriterToFinalize
  \/ ReturnToMain

\* A run over several files and games.
Init == InitOf(RunInputs)
Next == NextOf(RunInputs)
Spec == Init /\ [][Next]_vars

\* One game, every token.
InitGame == InitOf(GameInputs)
NextGame == NextOf(GameInputs)
SpecGame == InitGame /\ [][NextGame]_vars

\* One game, every result and legal-move set.
InitRecord == InitOf(RecordInputs)
NextRecord == NextOf(RecordInputs)
SpecRecord == InitRecord /\ [][NextRecord]_vars

\* ---------------------------------------------- the pure functions alone
\* The program has converted nothing: the globals have their initial values
\* and there is no file, game or writer.
Idle ==
  /\ options = [fishtest_mode |-> FALSE]
  /\ max_games_per_directory = 10000
  /\ max_games_to_convert = 10000000
  /\ idx = 1
  /\ game_id = 0
  /\ pgn = ClosedPgn
  /\ games_read = 0
  /\ writers = <<>>
  /\ ub = FALSE
  /\ NoGame

\* The squares of the board, as (rank, file).
Squares == {BoardSquare(r, c) : r \in 0..7, c \in 0..7}

\* Every call of poly_move_to_lc0_move: a move between two squares, with
\* or without a promotion piece, for either side, which move_is_castle
\* takes for a castling move or not.
MoveCalls ==
  {[fn |-> "poly_move_to_lc0_move", move |-> PolyMove(f, t, p),
    board |-> PolyBoard(bl, ca), ret |-> <<>>] :
      f \in Squares, t \in Squares, p \in 0..4, bl \in BOOLEAN, ca \in BOOLEAN}

InitMove ==
  /\ Idle
  /\ pc = "call"
  /\ call \in MoveCalls

\* lczero::Move lc0_move = poly_move_to_lc0_move(move, board);
TranslateMove ==
  /\ pc = "call"
  /\ call.ret = <<>>
  /\ call' = [call EXCEPT !.ret = <<poly_move_to_lc0_move(call.move, call.board)>>]
  /\ UNCHANGED <<config, idx, game_id, pc, pgn, games_read, game_vars>>

NextMove == TranslateMove
SpecMove == InitMove /\ [][NextMove]_vars

\* The 64-bit values with at most k bits set.
RECURSIVE BitSets(_)
BitSets(k) ==
  IF k = 0 THEN {{}}
  ELSE BitSets(k - 1) \cup {s \cup {i} : s \in BitSets(k - 1), i \in Bits}

\* Every call of resever_bits_in_bytes on a value with few bits set.
BitCalls ==
  {[fn |-> "resever_bits_in_bytes", v |-> v, ret |-> <<>>] : v \in BitSets(MaxBits)}

InitBits ==
  /\ Idle
  /\ pc = "call"
  /\ call \in BitCalls

\* plane = resever_bits_in_bytes(...): the function is applied to the
\* value, and once more to what it returned.
ReverseBits ==
  /\ pc = "call"
  /\ Len(call.ret) < 2
  /\ call' = [call EXCEPT !.ret =
                Append(@, resever_bits_in_bytes(IF @ = <<>> THEN call.v ELSE @[Len(@)]))]
  /\ UNCHANGED <<config, idx, game_id, pc, pgn, games_read, game_vars>>

NextBits == ReverseBits
SpecBits == InitBits /\ [][NextBits]_vars

\* ------------------------------------------------------------- properties
InMain == pc \in {"main_for", "main_while", "done"}

\* The writer of the game being converted is still in use.
Live(i) == pc \in {"loop", "ff", "fin"} /\ writer = i

\* The step is an iteration of the move loop that got a token.
IterationStep == pgn'.move_no = pgn.move_no + 1

\* No record is written in the step.
NoChunkWritten ==
  \A i \in DOMAIN writers' :
    writers'[i].nchunks = IF i \in DOMAIN writers THEN writers[i].nchunks ELSE 0

\* The step leaves both positions as they are.
NoMoveExecuted == board' = board /\ position_history' = position_history

\* The step executes one move on both positions.
MoveExecuted ==
  /\ board'.n = board.n + 1
  /\ position_history'.n = position_history.n + 1

\* C1: a writer is made for a game only if the game emits a record: every
\* writer that has been finalized holds at least one record, and main's
\* counter counts the games that emitted a record.
C1_ShardOnlyWithRecord ==
  /\ \A i \in DOMAIN writers : writers[i].released => writers[i].nchunks > 0
  /\ InMain => game_id = Cardinality({i \in DOMAIN writers : writers[i].nchunks > 0})

\* C3: a writer that was made is finalized exactly once and released, on
\* every way out of the move loop; it is finalized only after the move loop
\* and the fast-forward, and nothing is written to it afterwards.
C3_State ==
  /\ \A i \in DOMAIN writers :
       /\ writers[i].finalized <= 1
       /\ writers[i].released <=> writers[i].finalized = 1
       /\ Live(i) => writers[i].finalized = 0
       /\ ~Live(i) => writers[i].finalized = 1
  /\ writer # nullptr => writer \in DOMAIN writers

C3_Step ==
  \A i \in DOMAIN writers : writers[i].finalized > 0 => writers'[i] = writers[i]

\* C3: every writer is finalized exactly once, after the loops, and never
\* written afterwards.
C3_FinalizeOnce == [](C3_State) /\ [][C3_Step]_vars

C3_Witness ==
  /\ pc = "ret"
  /\ outcome = "strict"
  /\ writer # nullptr
  /\ writers[writer].nchunks = 1
  /\ writers[writer].finalized = 1

\* C4: the N-th writer made over the run (N from 0) has the identifier N and
\* goes to directory N div capacity, whatever games before it made no
\* writer and whatever file it comes from.
C4_PartitionIndex ==
  \A i \in DOMAIN writers :
    /\ writers[i].id = i - 1
    /\ writers[i].dir = (i - 1) \div max_games_per_directory

C4_Witness ==
  /\ Len(writers) = 2
  /\ writers[2].game = 3
  /\ writers[2].dir = 1
  /\ idx = 2

\* The token the move loop has just got is a legal move.
LegalToken(r) == r.str \in {"legal", "mate"}

\* The glyph of the token is a filtering one.
FilteringGlyph(r) ==
  /\ r.last_read_nag # <<>>
  /\ r.last_read_nag[1] \in {"2", "4", "5", "6"}

\* C2: a record is written for a move only if the move is not filtered and
\* has an evaluation; outside strict mode a legal move without a comment
\* gives no record and the move loop goes on.
C2_Step ==
  IterationStep =>
    /\ ~NoChunkWritten => (~bad_move' /\ fishtest_score' # <<>>)
    /\ (LegalToken(pgn') /\ pgn'.last_read_comment = "" /\ ~options.fishtest_mode)
         => (NoChunkWritten /\ pc' = "loop")

\* C2: every step of the run is one in which a record is written only for
\* an unfiltered move with an evaluation.
C2_RecordOnlyIfEligible == [][C2_Step]_vars

\* C5: an unparseable or illegal move token aborts the game: no record for
\* it or for a later token, no move executed any more, the rest of the
\* game's tokens consumed before the function returns, and the writer, if
\* one was made, finalized with the records it had.
C5_State ==
  /\ pc = "ret" => pgn.remaining = 0
  /\ (pc = "ret" /\ outcome = "illegal" /\ writer # nullptr)
       => writers[writer].finalized = 1

C5_Step ==
  /\ (IterationStep /\ ~LegalToken(pgn'))
       => (outcome' = "illegal" /\ pc' # "loop" /\ NoChunkWritten /\ NoMoveExecuted)
  /\ (outcome = "illegal" /\ outcome' = "illegal")
       => (~IterationStep /\ NoChunkWritten /\ NoMoveExecuted)

\* C5: an illegal or unparseable move token aborts the game and the rest of
\* its tokens is consumed.
C5_AbortOnIllegal == [](C5_State) /\ [][C5_Step]_vars

C5_Witness ==
  /\ pc = "ff"
  /\ outcome = "illegal"
  /\ pgn.remaining > 0
  /\ writer # nullptr
  /\ writers[writer].nchunks = 1

\* C6: in strict mode the first legal move without a comment abandons the
\* game: neither it nor a later move gives a record or is executed, and when
\* it is the first move of the game there is no writer and main's counter
\* stays.
C6_State ==
  (outcome = "strict" /\ pgn.move_no = 1) => writer = nullptr

C6_Step ==
  /\ (IterationStep /\ options.fishtest_mode /\ LegalToken(pgn')
        /\ pgn'.last_read_comment = "")
       => (outcome' = "strict" /\ pc' # "loop" /\ NoChunkWritten
             /\ NoMoveExecuted /\ writer' = writer)
  /\ (outcome = "strict" /\ outcome' = "strict")
       => (~IterationStep /\ NoChunkWritten /\ NoMoveExecuted)
  /\ (pc = "ret" /\ outcome = "strict" /\ pgn.move_no = 1) => game_id' = game_id

\* C6: in strict mode a legal move without a comment abandons the game.
C6_StrictAbandons == [](C6_State) /\ [][C6_Step]_vars

C6_Witness ==
  /\ pc = "ret"
  /\ options.fishtest_mode
  /\ outcome = "strict"
  /\ pgn.move_no = 1
  /\ pgn.last_read_comment = ""
  /\ writer = nullptr

\* C7 as claimed: a legal move with a filtering glyph gives no record, is
\* executed, and the move loop goes on, whatever its comment and the mode.
C7_Claimed_Step ==
  (IterationStep /\ LegalToken(pgn') /\ FilteringGlyph(pgn'))
    => (NoChunkWritten /\ MoveExecuted /\ pc' = "loop")

\* C7 as claimed, over every step.
C7_Claimed == [][C7_Claimed_Step]_vars

\* The move loop stops at the comment of the token: a comment without a
\* score on a move that is no mate, or no comment in strict mode.
StopsAtComment(r) ==
  \/ /\ r.last_read_comment # ""
     /\ r.str # "mate"
     /\ ~extract_fishtest_comment_score(r.last_read_comment).success
  \/ /\ r.last_read_comment = ""
     /\ options.fishtest_mode

\* C7: a legal move with a filtering glyph never gives a record; it is
\* executed and the move loop goes on unless the loop stops at its comment,
\* and then the move is not executed.
C7_Step ==
  (IterationStep /\ LegalToken(pgn') /\ FilteringGlyph(pgn'))
    => /\ NoChunkWritten
       /\ IF StopsAtComment(pgn')
            THEN NoMoveExecuted /\ pc' = "ff"
            ELSE MoveExecuted /\ pc' = "loop"

\* C7: a filtered legal move gives no record and is executed unless the
\* loop stops at its comment.
C7_FilteredMove == [][C7_Step]_vars

C7_Witness ==
  /\ pc = "loop"
  /\ outcome = "skipped"
  /\ pgn.last_read_nag = <<"6">>
  /\ pgn.last_read_comment = ""
  /\ position_history.n = 2

\* Black is to move in the position the token numbered k is played in: the
\* side of the starting FEN, turned once for every move before the token.
BlackToMoveAt(k) == pgn.fen_black # ((k - 1) % 2 = 1)

\* C8: in a record built for a played move that is in the legal-move set,
\* the played move's index holds 1, the index of every other legal move
\* holds 0, and every other index holds -1.
C8_ProbabilityVector ==
  (chunk # <<>> /\ found) =>
    \A i \in 0..(NNSize - 1) :
      chunk[1].probabilities[i] =
        IF i = lc0_move[1].nn THEN F_one
        ELSE IF i \in {l.nn : l \in legal_moves} THEN F_zero
        ELSE F_minusone

\* C9: the result label of a written record is +1 when the game's result
\* favours the side to move in the stored position, -1 when it favours the
\* other side, 0 for a draw; root_d and best_d are 0.0 for a decisive game
\* and 1.0 for a drawn one.
C9_ResultLabel ==
  outcome = "recorded" =>
    LET c == chunk[1]
        black == BlackToMoveAt(pgn.move_no)
    IN  /\ c.side_to_move = IF black THEN 1 ELSE 0
        /\ pgn.result = "1-0" =>
             /\ c.result = IF black THEN 0 - 1 ELSE 1
             /\ c.root_d = 0 /\ c.best_d = 0
        /\ pgn.result = "0-1" =>
             /\ c.result = IF black THEN 1 ELSE 0 - 1
             /\ c.root_d = 0 /\ c.best_d = 0
        /\ pgn.result = "1/2-1/2" =>
             /\ c.result = 0
             /\ c.root_d = 10 /\ c.best_d = 10

C9_Witness ==
  /\ outcome = "recorded"
  /\ pgn.result = "0-1"
  /\ ~pgn.fen_black
  /\ pgn.move_no = 2
  /\ chunk[1].result = 1
  /\ writers[writer].nchunks = 2

\* C10 as claimed: a mating move, with or without a comment, gets the
\* evaluation 128 with the sign of the side to move after it.
C10_Claimed_Step ==
  (IterationStep /\ pgn'.str = "mate") =>
    LET after_black == ~BlackToMoveAt(pgn'.move_no)
    IN  fishtest_score' = <<IF after_black THEN 12800 ELSE 0 - 12800>>

\* C10 as claimed, over every step.
C10_Claimed == [][C10_Claimed_Step]_vars

\* C10: a mating move with a comment gets the evaluation 128 whatever the
\* comment says, +128 when black is to move after it and -128 when white
\* is; a mating move without a comment gets no evaluation, Q stays 0, and
\* in strict mode the game is abandoned there.
C10_Step ==
  (IterationStep /\ pgn'.str = "mate") =>
    LET after_black == ~BlackToMoveAt(pgn'.move_no)
    IN  IF pgn'.last_read_comment # ""
          THEN /\ fishtest_score' = <<IF after_black THEN 12800 ELSE 0 - 12800>>
               /\ Q' = IF after_black THEN 1000 ELSE 0 - 1000
               /\ MoveExecuted
               /\ position_history'.black = after_black
          ELSE /\ fishtest_score' = <<>>
               /\ Q' = 0
               /\ options.fishtest_mode => (NoMoveExecuted /\ pc' = "ff")

\* C10: a commented mating move gets the saturated evaluation, an
\* uncommented one none.
C10_MateScore == [][C10_Step]_vars

C10_Witness ==
  /\ outcome = "recorded"
  /\ pgn.str = "mate"
  /\ pgn.last_read_comment = "{book}"
  /\ fishtest_score = <<0 - 12800>>
  /\ ~position_history.black

\* A record is written in the step, to the writer of the game.
ChunkWritten ==
  /\ writer' # nullptr
  /\ chunk' # <<>>
  /\ writers'[writer'].nchunks = 1 + (IF writer # nullptr THEN writers[writer].nchunks ELSE 0)

\* C11: a translated move is found only if a legal move has its squares and
\* its castling flag; when a move that has an evaluation or is filtered is
\* not found, nothing but the diagnostic changes: an unfiltered move gets
\* its record, built with the translated move, a filtered one gets none, the
\* move is executed and the move loop goes on.
C11_Step ==
  (IterationStep /\ LegalToken(pgn') /\ ~StopsAtComment(pgn')
     /\ (fishtest_score' # <<>> \/ bad_move'))
    => /\ found' = (lc0_move'[1] \in legal_moves')
       /\ ~found' =>
            /\ MoveExecuted
            /\ pc' = "loop"
            /\ IF bad_move'
                 THEN NoChunkWritten
                 ELSE /\ ChunkWritten
                      /\ chunk'[1].probabilities[lc0_move'[1].nn] = F_one

\* C11: a played move that is not in the legal-move set is only reported.
C11_NotFoundIsNotFatal == [][C11_Step]_vars

C11_Witness ==
  /\ outcome = "recorded"
  /\ pc = "loop"
  /\ ~found
  /\ lc0_move = <<Move(NNSize - 2, FALSE)>>
  /\ Move(NNSize - 2, TRUE) \in legal_moves
  /\ chunk[1].probabilities[NNSize - 2] = F_one
  /\ position_history.n = 1

\* C12: the writers made over the run never outnumber the ceiling; a game
\* is started only while the written games are fewer than the ceiling, and
\* in main the counter held against the ceiling is the number of writers
\* made, so a game that made no writer does not count.
C12_State ==
  /\ Len(writers) <= max_games_to_convert
  /\ InMain => game_id = Len(writers)
  /\ pc \in {"loop", "ff", "fin", "ret"} => game_id < max_games_to_convert

C12_Step ==
  /\ (pc = "main_while" /\ pc' = "loop") => Len(writers) < max_games_to_convert
  /\ (pc = "main_while" /\ ~(Len(writers) < max_games_to_convert))
       => (pc' = "main_for" /\ writers' = writers /\ ub' = ub)

\* C12: the ceiling on written games is kept and ends the file's loop
\* normally.
C12_CeilingKept == [](C12_State) /\ [][C12_Step]_vars

C12_Witness ==
  /\ pc = "done"
  /\ max_games_to_convert = 1
  /\ Len(writers) = 1
  /\ writers[1].game = 2
  /\ games_read = 3

\* C13: whenever the move loop has reached writer->WriteChunk(chunk) for a
\* move, the writer of the game is there: the pointer is not null and no
\* call has gone through a null pointer.
C13_WriterAtWriteChunk ==
  /\ outcome \in {"recorded", "null_writer"} => writer # nullptr
  /\ ~ub

\* C14: a record is built from the position in which its move is played:
\* the record for token k of a game holds the planes and the side to move of
\* the starting position with the k-1 tokens before it applied, whether
\* those gave records or not; a game's records are written one token after
\* the other to the writer made last, and the writers are made in the order
\* in which the reader hands out the games.
C14_State ==
  /\ pc = "loop" => (position_history.n = pgn.move_no /\ board.n = pgn.move_no)
  /\ \A i, j \in DOMAIN writers : i < j => writers[i].game < writers[j].game
  /\ \A i \in DOMAIN writers : writers[i].game <= games_read
  /\ writer # nullptr => (writer = Len(writers) /\ writers[writer].game = games_read
                            /\ writers[writer].nchunks <= pgn.move_no)

C14_Step ==
  ~NoChunkWritten =>
    /\ IterationStep
    /\ ChunkWritten
    /\ writer' = Len(writers')
    /\ position_history.n = pgn'.move_no - 1
    /\ chunk'[1].planes = resever_bits_in_bytes({pgn'.move_no - 1})
    /\ chunk'[1].side_to_move = IF BlackToMoveAt(pgn'.move_no) THEN 1 ELSE 0
    /\ position_history'.n = pgn'.move_no

\* C14: records are built before their move is applied, in move order and
\* game order.
C14_RecordOrder == [](C14_State) /\ [][C14_Step]_vars

C14_Witness ==
  /\ outcome = "recorded"
  /\ Len(writers) = 2
  /\ pgn.move_no = 3
  /\ writers[writer].nchunks = 1
  /\ chunk[1].planes = {5}
  /\ chunk[1].side_to_move = 0

\* The call of write_one_game_training_data is under way.
InCall == pc \in {"loop", "ff", "fin", "ret", "crashed"}

\* The number of writers the call under way has made: none or one.
MadeByCall == IF writer # nullptr THEN 1 ELSE 0

\* C15: the writers get the identifiers 0, 1, 2, ... in the order in which
\* they are made. The callee's copy of game_id is raised when the writer is
\* made and main's counter is not; when the call returns, main's counter
\* goes up by one if the call made a writer and stays otherwise, and no
\* other step changes it.
C15_State ==
  /\ \A i \in DOMAIN writers : writers[i].id = i - 1
  /\ InMain => game_id = Len(writers)
  /\ InCall => /\ game_id = Len(writers) - MadeByCall
               /\ arg_game_id = game_id + MadeByCall

C15_Step ==
  /\ Len(writers') > Len(writers) =>
       /\ writers' = Append(writers, writers'[Len(writers')])
       /\ writers'[Len(writers')].id = game_id
       /\ arg_game_id' = arg_game_id + 1
       /\ game_id' = game_id
  /\ IF pc = "ret"
       THEN game_id' = game_id + MadeByCall
       ELSE game_id' = game_id

\* C15: writer identifiers are consecutive over the run.
C15_ConsecutiveIds == [](C15_State) /\ [][C15_Step]_vars

C15_Witness ==
  /\ pc = "main_while"
  /\ idx = 2
  /\ games_read = 3
  /\ game_id = 2
  /\ Len(writers) = 2
  /\ writers[1].game = 1
  /\ writers[2].game = 3
  /\ writers[2].id = 1

\* C16: the polyglot board and the position history have had the same
\* moves applied at every point of a game: both start at the game's
\* starting position, an iteration of the move loop executes its move on
\* both or on neither, no other step of the call touches them, and a new
\* game starts both afresh.
C16_State ==
  /\ board.n = position_history.n
  /\ board.black = position_history.black
  /\ InCall => (board.black = BlackToMoveAt(board.n + 1))

C16_Step ==
  /\ (pc = "main_while" /\ pc' = "loop")
       => /\ board' = [n |-> 0, black |-> pgn'.fen_black, mated |-> FALSE]
          /\ position_history' = [n |-> 0, black |-> pgn'.fen_black]
  /\ IterationStep => (MoveExecuted \/ NoMoveExecuted)
  /\ (InCall /\ pc # "ret" /\ ~IterationStep) => NoMoveExecuted

\* C16: the two positions of a game advance in lockstep.
C16_Lockstep == [](C16_State) /\ [][C16_Step]_vars

C16_Witness ==
  /\ pc = "loop"
  /\ games_read = 2
  /\ Len(writers) = 2
  /\ writers[1].nchunks = 2
  /\ outcome = "skipped"
  /\ board.n = 1
  /\ position_history.n = 1

\* The rank of a translated square: flipped when black is to move.
MirroredRow(row, black) == IF black THEN 7 - row ELSE row

\* C17: a move that is no promotion and that move_is_castle takes for a
\* castling move gets the destination file 6 when its source file is less
\* than its destination file and 2 otherwise, the destination rank it had,
\* and the castling flag, wherever the destination square is; a promotion
\* gets its piece and never the castling flag or another file; the ranks of
\* both squares are flipped exactly when black is to move.
C17_CastlingTarget ==
  (pc = "call" /\ call.fn = "poly_move_to_lc0_move" /\ call.ret # <<>>) =>
    LET mv == call.move
        b  == call.board
        m  == call.ret[1]
    IN  /\ m.from = BoardSquare(MirroredRow(mv.from.row, b.black), mv.from.col)
        /\ m.to.row = MirroredRow(mv.to.row, b.black)
        /\ IF mv.promote # 0
             THEN /\ ~m.castling
                  /\ m.to.col = mv.to.col
                  /\ m.promotion = <<"Knight", "Bishop", "Rook", "Queen">>[mv.promote]
             ELSE /\ m.promotion = "None"
                  /\ m.castling = b.castle
                  /\ m.to.col = IF ~b.castle THEN mv.to.col
                                ELSE IF mv.from.col < mv.to.col THEN 6 ELSE 2

C17_Witness ==
  /\ pc = "call"
  /\ call.fn = "poly_move_to_lc0_move"
  /\ call.move = PolyMove(BoardSquare(7, 4), BoardSquare(7, 7), 0)
  /\ call.board = PolyBoard(TRUE, TRUE)
  /\ call.ret = <<[from |-> BoardSquare(0, 4), to |-> BoardSquare(0, 6),
                   promotion |-> "None", castling |-> TRUE]>>

\* C18: bit 8b+i of resever_bits_in_bytes(v) is bit 8b+(7-i) of v, for each
\* of the 8 bytes b and each bit i of a byte, and the function applied to
\* its own result gives v back.
C18_ByteBitReversal ==
  (pc = "call" /\ call.fn = "resever_bits_in_bytes") =>
    /\ Len(call.ret) >= 1 =>
         /\ call.ret[1] \subseteq Bits
         /\ \A b \in 0..7, i \in 0..7 :
              (8 * b + i \in call.ret[1]) <=> (8 * b + (7 - i) \in call.v)
    /\ Len(call.ret) = 2 => call.ret[2] = call.v

C18_Witness ==
  /\ pc = "call"
  /\ call.fn = "resever_bits_in_bytes"
  /\ call.v = {0, 63}
  /\ call.ret = <<{7, 56}, {0, 63}>>

====
